---- MODULE Spec2Model ----
(***************************************************************************)
(* Model of the compose web app (03-compose-orchestration/webapp/app.py):  *)
(* a Flask process that, after initialize_database, serves '/', '/health', *)
(* '/api/test-db', '/api/test-cache' and '/api/stats' on concurrent        *)
(* request threads against a PostgreSQL database and a Redis cache whose   *)
(* reachability changes at any time.                                       *)
(*                                                                         *)
(* A step of a request thread is a call that leaves the process (a         *)
(* connection attempt, statements up to the point where they wait or       *)
(* commit, a Redis command, a clock read); calls that only read and fail   *)
(* into the same except clause are one step.  Response fields that no      *)
(* handler decision depends on (version strings, memory figures, key and   *)
(* table counts, timestamps of the response) are left out of the records.  *)
(***************************************************************************)
EXTENDS Integers, Sequences, FiniteSets

\* ---------------------------------------------------------------- bounds
NumThreads == 2      \* request threads that can be in flight together
MaxRequests == 2     \* requests accepted in one run
MaxLate == 2         \* clock ticks the model follows past a time jump
TicksPerSec == 2     \* clock ticks in one second (datetime.now() is finer than time.time())

\* ------------------------------------------------------ program constants
Expire == 60         \* r.setex(test_key, 60, test_value)
NoKey == -1          \* Redis GET of a missing key / Python None

Threads == 1 .. NumThreads
ExpireTicks == Expire * TicksPerSec
MaxTime == ExpireTicks + MaxLate

Endpoints == {"/", "/health", "/api/test-db", "/api/test-cache", "/api/stats"}

\* what a connection attempt can meet
FailKinds == {"refused", "auth", "timeout"}
Causes(up) == IF up THEN {"ok"} ELSE FailKinds

VARIABLES
  dbUp,          \* the database accepts connections
  redisUp,       \* Redis answers
  tables,        \* tables requests and metrics exist
  metrics,       \* metric_value of the rows named 'total_requests', in heap order
  requests,      \* table requests: number of committed rows (only COUNT(*) is ever read)
  rowLock,       \* thread holding the row lock of metrics (0: nobody)
  openConns,     \* connections opened by request code and not yet close()d
  cache_hits,    \* Redis key 'cache_hits' (NoKey: absent)
  testKeys,      \* Redis keys 'test:<n>': n -> [val, exp]
  now,           \* the clock, in ticks
  main,          \* position of the __main__ block
  th,            \* request threads: locals and position
  accepted,      \* requests accepted so far
  homeDone,      \* '/' requests that ran to the end of home()
  dbEverDown,    \* the database has been unreachable at some point of the run
  redisEverDown, \* Redis has been unreachable at some point of the run
  maxStats       \* largest total_requests any /api/stats response has reported

vars == <<dbUp, redisUp, tables, metrics, requests, rowLock, openConns,
          cache_hits, testKeys, now, main, th, accepted, homeDone,
          dbEverDown, redisEverDown, maxStats>>

envVars == <<dbUp, redisUp, dbEverDown, redisEverDown>>
dbVars == <<tables, metrics, requests, rowLock>>
redisVars == <<cache_hits, testKeys>>
ghostVars == <<accepted, homeDone, maxStats>>

\* ------------------------------------------------------------ pure parts

\* get_db_connection with the retry its docstring speaks of: a failed
\* attempt is followed by a second one
get_db_connection_Retry(cause) ==
  IF cause = "ok"
    THEN [conn |-> "open", tries |-> 1, raised |-> FALSE]
    ELSE [conn |-> "None", tries |-> 2, raised |-> FALSE]

\* get_db_connection: psycopg2.connect under try/except Exception.
\* cause is what the attempt meets; the result is the returned value, the
\* number of connection attempts made and whether an exception left the call.
get_db_connection(cause) ==
  IF cause = "ok"
    THEN [conn |-> "open", tries |-> 1, raised |-> FALSE]
    ELSE [conn |-> "None", tries |-> 1, raised |-> FALSE]

\* get_redis_connection with r.ping() outside the try
get_redis_connection_PingUncaught(cause) ==
  IF cause = "ok"
    THEN [r |-> "client", tries |-> 1, raised |-> FALSE]
    ELSE [r |-> "None", tries |-> 1, raised |-> TRUE]

\* get_redis_connection: redis.Redis(...) then r.ping() under try/except.
get_redis_connection(cause) ==
  IF cause = "ok"
    THEN [r |-> "client", tries |-> 1, raised |-> FALSE]
    ELSE [r |-> "None", tries |-> 1, raised |-> FALSE]

\* the UPDATE with the sign of the increment wrong
UpdateTotalRequests_Minus(rows) == [i \in DOMAIN rows |-> rows[i] - 1]

\* UPDATE metrics SET metric_value = metric_value + 1 WHERE metric_name = 'total_requests'
UpdateTotalRequests(rows) == [i \in DOMAIN rows |-> rows[i] + 1]

\* an increment computed from a value read earlier, with no lock held
RowLockFree_NoLock(lock) == TRUE

\* The UPDATE waits for the row lock of a transaction that has not committed.
RowLockFree(lock) == lock = 0

\* result = cur.fetchone(); result[0] if result else 0
FetchTotalRequests(rows) == IF Len(rows) > 0 THEN rows[1] ELSE 0

\* a counter of real cache hits: nothing to count while the key is absent
RedisIncr_OnlyIfPresent(v) == IF v = NoKey THEN v ELSE v + 1

\* r.incr('cache_hits')
RedisIncr(v) == IF v = NoKey THEN 1 ELSE v + 1

\* int(r.get('cache_hits') or 0)
ReadCacheHits(v) == IF v = NoKey THEN 0 ELSE v

\* test_key = f"test:{int(time.time())}": the key is named by its second
TestKey(t) == t \div TicksPerSec

\* test_value = f"Hello from Redis at {datetime.now().isoformat()}"
TestValue(t) == t

\* SETEX with the time to live taken as ticks, not seconds
Setex_TtlInTicks(keys, k, ttl, v, t) ==
  [x \in DOMAIN keys \cup {k} |->
     IF x = k THEN [val |-> v, exp |-> t + ttl] ELSE keys[x]]

\* r.setex(key, ttl, value) at time t
Setex(keys, k, ttl, v, t) ==
  [x \in DOMAIN keys \cup {k} |->
     IF x = k THEN [val |-> v, exp |-> t + ttl * TicksPerSec] ELSE keys[x]]

\* r.get(key) at time t
Get(keys, k, t) ==
  IF k \in DOMAIN keys /\ t < keys[k].exp THEN keys[k].val ELSE NoKey

\* health(): health_status before the checks
HealthInit == [status |-> "healthy", services |-> <<>>]

\* health(): the database check
HealthCheckDb(hs, conn) ==
  IF conn # "None"
    THEN [hs EXCEPT !.services = Append(@, [name |-> "database", state |-> "healthy"])]
    ELSE [status |-> "degraded",
          services |-> Append(hs.services, [name |-> "database", state |-> "unhealthy"])]

\* the Redis check without the line that degrades the status
HealthCheckRedis_NoDegrade(hs, r) ==
  [hs EXCEPT !.services =
     Append(@, [name |-> "redis", state |-> IF r # "None" THEN "healthy" ELSE "unhealthy"])]

\* the Redis check skipped once the database check has failed
HealthCheckRedis_StopAtFirstFailure(hs, r) ==
  IF hs.status = "degraded"
    THEN hs
    ELSE IF r # "None"
      THEN [hs EXCEPT !.services = Append(@, [name |-> "redis", state |-> "healthy"])]
      ELSE [status |-> "degraded",
            services |-> Append(hs.services, [name |-> "redis", state |-> "unhealthy"])]

\* health(): the Redis check
HealthCheckRedis(hs, r) ==
  IF r # "None"
    THEN [hs EXCEPT !.services = Append(@, [name |-> "redis", state |-> "healthy"])]
    ELSE [status |-> "degraded",
          services |-> Append(hs.services, [name |-> "redis", state |-> "unhealthy"])]

\* get_system_stats(): the three outcomes of the database part
NoStats == [db_status |-> "", total_requests |-> 0, redis_status |-> "", cache_hits |-> 0]
StatsDbConnected(stats, rows) ==
  [stats EXCEPT !.db_status = "CONNECTED", !.total_requests = FetchTotalRequests(rows)]
StatsDbError(stats) ==
  [stats EXCEPT !.db_status = "ERROR", !.total_requests = 0]
StatsDbDisconnected(stats) ==
  [stats EXCEPT !.db_status = "DISCONNECTED", !.total_requests = 0]

\* get_system_stats(): the three outcomes of the Redis part
StatsRedisConnected(stats, v) ==
  [stats EXCEPT !.redis_status = "CONNECTED", !.cache_hits = ReadCacheHits(v)]
StatsRedisError(stats) ==
  [stats EXCEPT !.redis_status = "ERROR", !.cache_hits = 0]
StatsRedisDisconnected(stats) ==
  [stats EXCEPT !.redis_status = "DISCONNECTED", !.cache_hits = 0]

\* where a handler goes on after log_request(endpoint) returned
AfterLog(kind) ==
  CASE kind = "/" -> "home_redis"
    [] kind = "/health" -> "health_db"
    [] kind = "/api/test-db" -> "testdb_connect"
    [] kind = "/api/test-cache" -> "testcache_connect"
    [] kind = "/api/stats" -> "stats_db_connect"

\* where a handler goes on after get_system_stats() returned
AfterStats(kind) == IF kind = "/" THEN "home_render" ELSE "done"

Max(a, b) == IF a >= b THEN a ELSE b

\* ---------------------------------------------------------------- state

NoResp == [type |-> "none"]
NoHealth == [status |-> "", services |-> <<>>]

\* A thread: its position (pc, kind), the locals of the view function and of
\* the function it is in (conn, r, health_status, stats, test_key,
\* test_value, retrieved_value), the uncommitted write of its transaction
\* (txn), its response (resp) or the exception that left it (exc, at), and
\* what it has done so far: connection attempts made (dbTries, redisTries),
\* the value its test key held before it wrote (prev), when it wrote
\* (wrote), when the value it retrieved was written (written), floor.
IdleThread ==
  [pc |-> "idle", kind |-> "none", conn |-> "None", r |-> "None",
   dbTries |-> 0, redisTries |-> 0, health_status |-> NoHealth, stats |-> NoStats,
   test_key |-> NoKey, test_value |-> NoKey, prev |-> NoKey, wrote |-> NoKey,
   retrieved_value |-> NoKey, written |-> NoKey,
   txn |-> <<>>, resp |-> NoResp, exc |-> "none", at |-> "none", floor |-> 0]

Init ==
  /\ dbUp \in BOOLEAN
  /\ redisUp \in BOOLEAN
  /\ dbEverDown = ~dbUp
  /\ redisEverDown = ~redisUp
  /\ tables = FALSE
  /\ metrics = <<>>
  /\ requests = 0
  /\ rowLock = 0
  /\ openConns = 0
  /\ cache_hits = NoKey
  /\ testKeys = <<>>
  /\ now = 0
  /\ main = [pc |-> "init_connect", conn |-> "None"]
  /\ th = [t \in Threads |-> IdleThread]
  /\ accepted = 0
  /\ homeDone = 0
  /\ maxStats = 0

\* ------------------------------------------------------- the environment

\* The database becomes unreachable: its sessions end, their open
\* transactions are rolled back and their locks released.  What was
\* committed stays.
DbDown ==
  /\ dbUp
  /\ dbUp' = FALSE
  /\ dbEverDown' = TRUE
  /\ rowLock' = 0
  /\ th' = [t \in Threads |->
              IF th[t].conn = "open" THEN [th[t] EXCEPT !.conn = "broken"] ELSE th[t]]
  /\ main' = IF main.conn = "open" THEN [main EXCEPT !.conn = "broken"] ELSE main
  /\ UNCHANGED <<redisUp, redisEverDown, tables, metrics, requests, openConns,
                 cache_hits, testKeys, now, accepted, homeDone, maxStats>>

DbBack ==
  /\ ~dbUp
  /\ dbUp' = TRUE
  /\ UNCHANGED <<redisUp, dbEverDown, redisEverDown, tables, metrics, requests,
                 rowLock, openConns, cache_hits, testKeys, now, main, th,
                 accepted, homeDone, maxStats>>

\* Redis becomes unreachable; its keys stay
RedisDown ==
  /\ redisUp
  /\ redisUp' = FALSE
  /\ redisEverDown' = TRUE
  /\ UNCHANGED <<dbUp, dbEverDown, tables, metrics, requests, rowLock, openConns,
                 cache_hits, testKeys, now, main, th, accepted, homeDone, maxStats>>

RedisBack ==
  /\ ~redisUp
  /\ redisUp' = TRUE
  /\ UNCHANGED <<dbUp, dbEverDown, redisEverDown, tables, metrics, requests,
                 rowLock, openConns, cache_hits, testKeys, now, main, th,
                 accepted, homeDone, maxStats>>

\* Time passes between two readings of the clock: nothing, one tick, or the
\* expiry time.  Only test_cache() reads the clock or depends on an expiry,
\* so time is drawn where test_cache() can tell.
Elapsed(t) ==
  {d \in {0, 1, ExpireTicks} :
     /\ t + d <= MaxTime
     /\ d = 1 => (t % ExpireTicks) < MaxLate}

\* Redis drops the keys whose expiry time has come
Expired(keys, t) == [k \in {x \in DOMAIN keys : t < keys[x].exp} |-> keys[k]]

\* ------------------------------------------------------------- __main__

\* initialize_database(): conn = get_db_connection()
InitConnect ==
  /\ main.pc = "init_connect"
  /\ \E cause \in Causes(dbUp) :
       LET res == get_db_connection(cause) IN
         main' = IF res.conn = "None"
                   THEN [pc |-> "serving", conn |-> "None"]
                   ELSE [pc |-> "init_exec", conn |-> res.conn]
  /\ UNCHANGED <<envVars, dbVars, openConns, redisVars, now, th, ghostVars>>

\* initialize_database(): CREATE TABLE IF NOT EXISTS ..., INSERT INTO metrics
\* ... ON CONFLICT DO NOTHING (metrics has no unique key but id, so the row
\* is always inserted), commit, close.  Then app.run().
InitExec ==
  /\ main.pc = "init_exec"
  /\ IF main.conn = "open"
       THEN /\ tables' = TRUE
            /\ metrics' = Append(metrics, 0)
            /\ main' = [pc |-> "serving", conn |-> "closed"]
       ELSE /\ main' = [main EXCEPT !.pc = "serving"]
            /\ UNCHANGED <<tables, metrics>>
  /\ UNCHANGED <<envVars, requests, rowLock, openConns, redisVars, now, th, ghostVars>>

\* ------------------------------------------------------ request threads

Set(t, rec) == th' = [th EXCEPT ![t] = rec]

\* an exception leaves the view function: Flask answers 500
Crash(t, what) ==
  Set(t, [th[t] EXCEPT !.pc = "crashed", !.exc = what, !.at = th[t].pc])

\* Flask hands a request to a thread and the view function starts.  The
\* threads are interchangeable: the first idle one is taken.  floor keeps
\* what /api/stats responses had reported when the request began.
Accept(t, kind) ==
  /\ main.pc = "serving"
  /\ th[t].pc = "idle"
  /\ \A u \in Threads : u < t => th[u].pc # "idle"
  /\ accepted < MaxRequests
  /\ accepted' = accepted + 1
  /\ Set(t, [IdleThread EXCEPT !.pc = "log_connect", !.kind = kind,
                             !.floor = IF kind = "/api/stats" THEN maxStats ELSE 0])
  /\ UNCHANGED <<envVars, dbVars, openConns, redisVars, now, main, homeDone, maxStats>>

\* log_request(): conn = get_db_connection(); if conn: ...
LogConnect(t) ==
  /\ th[t].pc = "log_connect"
  /\ \E cause \in Causes(dbUp) :
       LET res == get_db_connection(cause)
           me == [th[t] EXCEPT !.dbTries = @ + res.tries]
       IN IF res.raised
            THEN /\ Crash(t, "dependency")
                 /\ UNCHANGED openConns
            ELSE IF res.conn = "None"
              THEN /\ Set(t, [me EXCEPT !.pc = AfterLog(me.kind)])
                   /\ UNCHANGED openConns
              ELSE /\ Set(t, [me EXCEPT !.pc = "log_exec", !.conn = res.conn])
                   /\ openConns' = openConns + 1
  /\ UNCHANGED <<envVars, dbVars, redisVars, now, main, ghostVars>>

\* log_request(): INSERT INTO requests ...; UPDATE metrics ... + 1.
\* A failing statement is caught by the except clause, which prints and
\* returns without closing conn.
LogExec(t) ==
  /\ th[t].pc = "log_exec"
  /\ IF th[t].conn = "open" /\ tables
       THEN /\ RowLockFree(rowLock)
            /\ rowLock' = t
            /\ Set(t, [th[t] EXCEPT !.pc = "log_commit",
                                    !.txn = UpdateTotalRequests(metrics)])
       ELSE /\ Set(t, [th[t] EXCEPT !.pc = AfterLog(th[t].kind), !.conn = "None"])
            /\ UNCHANGED rowLock
  /\ UNCHANGED <<envVars, tables, metrics, requests, openConns, redisVars, now,
                 main, ghostVars>>

\* log_request(): conn.commit(); cur.close(); conn.close()
LogCommit(t) ==
  /\ th[t].pc = "log_commit"
  /\ IF th[t].conn = "open"
       THEN /\ metrics' = th[t].txn
            /\ requests' = requests + 1
            /\ rowLock' = IF rowLock = t THEN 0 ELSE rowLock
            /\ openConns' = openConns - 1
       ELSE UNCHANGED <<metrics, requests, rowLock, openConns>>
  /\ Set(t, [th[t] EXCEPT !.pc = AfterLog(th[t].kind), !.conn = "None", !.txn = <<>>])
  /\ UNCHANGED <<envVars, tables, redisVars, now, main, ghostVars>>

\* get_system_stats(): conn = get_db_connection()
StatsDbConnect(t) ==
  /\ th[t].pc = "stats_db_connect"
  /\ \E cause \in Causes(dbUp) :
       LET res == get_db_connection(cause)
           me == [th[t] EXCEPT !.dbTries = @ + res.tries]
       IN IF res.raised
            THEN /\ Crash(t, "dependency")
                 /\ UNCHANGED openConns
            ELSE IF res.conn = "None"
              THEN /\ Set(t, [me EXCEPT !.pc = "stats_redis_connect",
                                        !.stats = StatsDbDisconnected(NoStats)])
                   /\ UNCHANGED openConns
              ELSE /\ Set(t, [me EXCEPT !.pc = "stats_db_query", !.conn = res.conn,
                                        !.stats = NoStats])
                   /\ openConns' = openConns + 1
  /\ UNCHANGED <<envVars, dbVars, redisVars, now, main, ghostVars>>

\* get_system_stats(): the three SELECTs, cur.close(), conn.close(); the
\* except clause fills in the ERROR values and leaves conn as it is.
StatsDbQuery(t) ==
  /\ th[t].pc = "stats_db_query"
  /\ IF th[t].conn = "open" /\ tables
       THEN /\ Set(t, [th[t] EXCEPT !.pc = "stats_redis_connect", !.conn = "None",
                                    !.stats = StatsDbConnected(@, metrics)])
            /\ openConns' = openConns - 1
       ELSE /\ Set(t, [th[t] EXCEPT !.pc = "stats_redis_connect", !.conn = "None",
                                    !.stats = StatsDbError(@)])
            /\ UNCHANGED openConns
  /\ UNCHANGED <<envVars, dbVars, redisVars, now, main, ghostVars>>

\* get_system_stats() returns: home() goes on to render, api_stats() answers
\* with jsonify(stats)
ReturnStats(t, me, stats) ==
  /\ Set(t, [me EXCEPT !.pc = AfterStats(me.kind), !.stats = stats, !.r = "None",
                       !.resp = IF me.kind = "/api/stats"
                                  THEN [type |-> "stats", body |-> stats]
                                  ELSE NoResp])
  /\ maxStats' = IF me.kind = "/api/stats"
                   THEN Max(maxStats, stats.total_requests)
                   ELSE maxStats

\* get_system_stats(): r = get_redis_connection()
StatsRedisConnect(t) ==
  /\ th[t].pc = "stats_redis_connect"
  /\ \E cause \in Causes(redisUp) :
       LET res == get_redis_connection(cause)
           me == [th[t] EXCEPT !.redisTries = @ + res.tries]
       IN IF res.raised
            THEN /\ Crash(t, "dependency")
                 /\ UNCHANGED maxStats
            ELSE IF res.r = "None"
              THEN ReturnStats(t, me, StatsRedisDisconnected(me.stats))
              ELSE /\ Set(t, [me EXCEPT !.pc = "stats_redis_read", !.r = res.r])
                   /\ UNCHANGED maxStats
  /\ UNCHANGED <<envVars, dbVars, openConns, redisVars, now, main, accepted, homeDone>>

\* get_system_stats(): r.info(), r.dbsize(), r.get('cache_hits')
StatsRedisRead(t) ==
  /\ th[t].pc = "stats_redis_read"
  /\ IF redisUp
       THEN ReturnStats(t, th[t], StatsRedisConnected(th[t].stats, cache_hits))
       ELSE ReturnStats(t, th[t], StatsRedisError(th[t].stats))
  /\ UNCHANGED <<envVars, dbVars, openConns, redisVars, now, main, accepted, homeDone>>

\* home(): r = get_redis_connection(); if r: ...
HomeRedis(t) ==
  /\ th[t].pc = "home_redis"
  /\ \E cause \in Causes(redisUp) :
       LET res == get_redis_connection(cause)
           me == [th[t] EXCEPT !.redisTries = @ + res.tries]
       IN IF res.raised
            THEN Crash(t, "dependency")
            ELSE IF res.r = "None"
              THEN Set(t, [me EXCEPT !.pc = "stats_db_connect"])
              ELSE Set(t, [me EXCEPT !.pc = "home_incr", !.r = res.r])
  /\ UNCHANGED <<envVars, dbVars, openConns, redisVars, now, main, ghostVars>>

\* home(): r.incr('cache_hits'), outside any try
HomeIncr(t) ==
  /\ th[t].pc = "home_incr"
  /\ IF redisUp
       THEN /\ cache_hits' = RedisIncr(cache_hits)
            /\ Set(t, [th[t] EXCEPT !.pc = "stats_db_connect", !.r = "None"])
       ELSE /\ Crash(t, "dependency")
            /\ UNCHANGED cache_hits
  /\ UNCHANGED <<envVars, dbVars, openConns, testKeys, now, main, ghostVars>>

\* home(): the f-string of system_info reads Flask.__version__, which the
\* class Flask does not have (the version is an attribute of the module):
\* AttributeError leaves home() after all its calls to the dependencies.
HomeRender(t) ==
  /\ th[t].pc = "home_render"
  /\ Crash(t, "AttributeError")
  /\ homeDone' = homeDone + 1
  /\ UNCHANGED <<envVars, dbVars, openConns, redisVars, now, main, accepted, maxStats>>

\* health(): the database check; conn is closed at once
HealthDb(t) ==
  /\ th[t].pc = "health_db"
  /\ \E cause \in Causes(dbUp) :
       LET res == get_db_connection(cause)
           me == [th[t] EXCEPT !.dbTries = @ + res.tries]
       IN IF res.raised
            THEN Crash(t, "dependency")
            ELSE Set(t, [me EXCEPT !.pc = "health_redis",
                                   !.conn = IF res.conn = "None" THEN "None" ELSE "closed",
                                   !.health_status = HealthCheckDb(HealthInit, res.conn)])
  /\ UNCHANGED <<envVars, dbVars, openConns, redisVars, now, main, ghostVars>>

\* health(): the Redis check and return jsonify(health_status)
HealthRedis(t) ==
  /\ th[t].pc = "health_redis"
  /\ \E cause \in Causes(redisUp) :
       LET res == get_redis_connection(cause)
           me == [th[t] EXCEPT !.redisTries = @ + res.tries]
           hs == HealthCheckRedis(me.health_status, res.r)
       IN IF res.raised
            THEN Crash(t, "dependency")
            ELSE Set(t, [me EXCEPT !.pc = "done", !.r = res.r, !.health_status = hs,
                                   !.resp = [type |-> "health", body |-> hs]])
  /\ UNCHANGED <<envVars, dbVars, openConns, redisVars, now, main, ghostVars>>

\* test_db(): conn = get_db_connection()
TestDbConnect(t) ==
  /\ th[t].pc = "testdb_connect"
  /\ \E cause \in Causes(dbUp) :
       LET res == get_db_connection(cause)
           me == [th[t] EXCEPT !.dbTries = @ + res.tries]
       IN IF res.raised
            THEN /\ Crash(t, "dependency")
                 /\ UNCHANGED openConns
            ELSE IF res.conn = "None"
              THEN /\ Set(t, [me EXCEPT !.pc = "done",
                                        !.resp = [type |-> "test-db", status |-> "error",
                                                  message |-> "Cannot connect to database"]])
                   /\ UNCHANGED openConns
              ELSE /\ Set(t, [me EXCEPT !.pc = "testdb_query", !.conn = res.conn])
                   /\ openConns' = openConns + 1
  /\ UNCHANGED <<envVars, dbVars, redisVars, now, main, ghostVars>>

\* test_db(): SELECT version(), SELECT COUNT(*) FROM requests, close
TestDbQuery(t) ==
  /\ th[t].pc = "testdb_query"
  /\ IF th[t].conn = "open" /\ tables
       THEN /\ Set(t, [th[t] EXCEPT !.pc = "done", !.conn = "None",
                                    !.resp = [type |-> "test-db", status |-> "success",
                                              total_requests |-> requests]])
            /\ openConns' = openConns - 1
       ELSE /\ Set(t, [th[t] EXCEPT !.pc = "done", !.conn = "None",
                                    !.resp = [type |-> "test-db", status |-> "error",
                                              message |-> "str(e)"]])
            /\ UNCHANGED openConns
  /\ UNCHANGED <<envVars, dbVars, redisVars, now, main, ghostVars>>

TestCacheError(t, msg) ==
  Set(t, [th[t] EXCEPT !.pc = "done", !.r = "None",
                       !.resp = [type |-> "test-cache", status |-> "error", message |-> msg]])

\* test_cache(): r = get_redis_connection()
TestCacheConnect(t) ==
  /\ th[t].pc = "testcache_connect"
  /\ \E cause \in Causes(redisUp) :
       LET res == get_redis_connection(cause)
           me == [th[t] EXCEPT !.redisTries = @ + res.tries]
       IN IF res.raised
            THEN Crash(t, "dependency")
            ELSE IF res.r = "None"
              THEN Set(t, [me EXCEPT !.pc = "done",
                                     !.resp = [type |-> "test-cache", status |-> "error",
                                               message |-> "Cannot connect to Redis"]])
              ELSE Set(t, [me EXCEPT !.pc = "testcache_key", !.r = res.r])
  /\ UNCHANGED <<envVars, dbVars, openConns, redisVars, now, main, ghostVars>>

\* test_cache(): test_key = f"test:{int(time.time())}"
TestCacheKey(t) ==
  /\ th[t].pc = "testcache_key"
  /\ \E d \in Elapsed(now) :
       /\ now' = now + d
       /\ testKeys' = Expired(testKeys, now')
       /\ Set(t, [th[t] EXCEPT !.pc = "testcache_value", !.test_key = TestKey(now')])
  /\ UNCHANGED <<envVars, dbVars, openConns, cache_hits, main, ghostVars>>

\* test_cache(): test_value = f"Hello from Redis at {datetime.now().isoformat()}"
TestCacheValue(t) ==
  /\ th[t].pc = "testcache_value"
  /\ \E d \in Elapsed(now) :
       /\ now' = now + d
       /\ testKeys' = Expired(testKeys, now')
       /\ Set(t, [th[t] EXCEPT !.pc = "testcache_setex", !.test_value = TestValue(now')])
  /\ UNCHANGED <<envVars, dbVars, openConns, cache_hits, main, ghostVars>>

\* test_cache(): r.setex(test_key, 60, test_value).  The value is the one
\* read from the clock before; the expiry runs from the time the command
\* reaches Redis.  prev keeps what the key held before this write.
TestCacheSetex(t) ==
  /\ th[t].pc = "testcache_setex"
  /\ IF redisUp
       THEN \E d \in Elapsed(now) :
              /\ now' = now + d
              /\ testKeys' = Setex(Expired(testKeys, now'), th[t].test_key, Expire,
                                   th[t].test_value, now')
              /\ Set(t, [th[t] EXCEPT !.pc = "testcache_get",
                                      !.wrote = now',
                                      !.prev = Get(testKeys, th[t].test_key, now')])
       ELSE /\ TestCacheError(t, "str(e)")
            /\ UNCHANGED <<testKeys, now>>
  /\ UNCHANGED <<envVars, dbVars, openConns, cache_hits, main, ghostVars>>

\* test_cache(): retrieved_value = r.get(test_key); info = r.info();
\* r.dbsize(); return jsonify({...})
TestCacheGet(t) ==
  /\ th[t].pc = "testcache_get"
  /\ IF redisUp
       THEN \E d \in Elapsed(now) :
              /\ now' = now + d
              /\ testKeys' = Expired(testKeys, now')
              /\ LET got == Get(testKeys, th[t].test_key, now') IN
                   Set(t, [th[t] EXCEPT !.pc = "done", !.r = "None",
                                        !.retrieved_value = got,
                                        !.written =
                                          IF got = NoKey THEN NoKey
                                          ELSE testKeys[th[t].test_key].exp
                                                 - Expire * TicksPerSec,
                                        !.resp = [type |-> "test-cache", status |-> "success",
                                                  test_key |-> th[t].test_key,
                                                  test_value |-> th[t].test_value,
                                                  retrieved_value |-> got]])
       ELSE /\ TestCacheError(t, "str(e)")
            /\ UNCHANGED <<testKeys, now>>
  /\ UNCHANGED <<envVars, dbVars, openConns, cache_hits, main, ghostVars>>

\* the response (or Flask's 500) is sent and the thread ends
Respond(t) ==
  /\ th[t].pc \in {"done", "crashed"}
  /\ Set(t, IdleThread)
  /\ UNCHANGED <<envVars, dbVars, openConns, redisVars, now, main, ghostVars>>

\* the dependencies come and go
Environment == DbDown \/ DbBack \/ RedisDown \/ RedisBack

\* the __main__ block up to app.run()
Startup == InitConnect \/ InitExec

log_request(t) == LogConnect(t) \/ LogExec(t) \/ LogCommit(t)

get_system_stats(t) ==
  StatsDbConnect(t) \/ StatsDbQuery(t) \/ StatsRedisConnect(t) \/ StatsRedisRead(t)

home(t) == HomeRedis(t) \/ HomeIncr(t) \/ HomeRender(t)

health(t) == HealthDb(t) \/ HealthRedis(t)

test_db(t) == TestDbConnect(t) \/ TestDbQuery(t)

test_cache(t) ==
  \/ TestCacheConnect(t)
  \/ TestCacheKey(t)
  \/ TestCacheValue(t)
  \/ TestCacheSetex(t)
  \/ TestCacheGet(t)

\* the application under requests of every kind
Next ==
  \/ Environment
  \/ Startup
  \/ \E t \in Threads :
       \/ \E kind \in Endpoints : Accept(t, kind)
       \/ log_request(t)
       \/ get_system_stats(t)
       \/ home(t)
       \/ health(t)
       \/ test_db(t)
       \/ test_cache(t)
       \/ Respond(t)

Spec == Init /\ [][Next]_vars

\* the application under /health requests alone
HealthNext ==
  \/ Environment
  \/ Startup
  \/ \E t \in Threads :
       \/ Accept(t, "/health")
       \/ log_request(t)
       \/ health(t)
       \/ Respond(t)

HealthSpec == Init /\ [][HealthNext]_vars

\* the application under /api/stats requests alone
StatsNext ==
  \/ Environment
  \/ Startup
  \/ \E t \in Threads :
       \/ Accept(t, "/api/stats")
       \/ log_request(t)
       \/ get_system_stats(t)
       \/ Respond(t)

StatsSpec == Init /\ [][StatsNext]_vars

\* the application under /api/test-cache requests alone
TestCacheNext ==
  \/ Environment
  \/ Startup
  \/ \E t \in Threads :
       \/ Accept(t, "/api/test-cache")
       \/ log_request(t)
       \/ test_cache(t)
       \/ Respond(t)

TestCacheSpec == Init /\ [][TestCacheNext]_vars

\* ----------------------------------------------------------- the claims

AllIdle == \A t \in Threads : th[t].pc = "idle"
HealthDone(t) == th[t].pc = "done" /\ th[t].resp.type = "health"
StatsDone(t) == th[t].pc = "done" /\ th[t].resp.type = "stats"
TestCacheSuccess(t) ==
  th[t].pc = "done" /\ th[t].resp.type = "test-cache" /\ th[t].resp.status = "success"
States(services) == {services[i].state : i \in DOMAIN services}

\* C1: in every /health response the status is 'degraded' iff some entry of
\* services is 'unhealthy', and 'healthy' iff every entry is 'healthy'.
C1_StatusIffServices ==
  \A t \in Threads :
    HealthDone(t) =>
      LET body == th[t].resp.body IN
        /\ body.status \in {"healthy", "degraded"}
        /\ body.status = "degraded" <=> "unhealthy" \in States(body.services)
        /\ body.status = "healthy" <=> States(body.services) = {"healthy"}

\* C1 witness: a response degraded by Redis alone
C1_Witness ==
  \E t \in Threads :
    /\ HealthDone(t)
    /\ th[t].resp.body.status = "degraded"
    /\ th[t].resp.body.services[1].state = "healthy"
    /\ th[t].resp.body.services[2].state = "unhealthy"

\* C2: every /health response has exactly the entries 'database' and
\* 'redis', in this order, each 'healthy' iff the probe of that dependency
\* returned a connection.
C2_OneEntryPerDependency ==
  \A t \in Threads :
    HealthDone(t) =>
      LET services == th[t].resp.body.services IN
        /\ Len(services) = 2
        /\ services[1].name = "database"
        /\ services[2].name = "redis"
        /\ services[1].state = "healthy" <=> th[t].conn # "None"
        /\ services[2].state = "healthy" <=> th[t].r # "None"
        /\ States(services) \subseteq {"healthy", "unhealthy"}

\* C2 witness: database down, Redis up
C2_Witness ==
  \E t \in Threads :
    /\ HealthDone(t)
    /\ th[t].conn = "None"
    /\ th[t].r # "None"
    /\ th[t].resp.body =
         [status |-> "degraded",
          services |-> <<[name |-> "database", state |-> "unhealthy"],
                         [name |-> "redis", state |-> "healthy"]>>]

\* C3: no error of a dependency leaves a view function as an exception.
C3_NoDependencyErrorEscapes ==
  \A t \in Threads : th[t].pc = "crashed" => th[t].exc # "dependency"

DbProbes == {"log_connect", "stats_db_connect", "health_db", "testdb_connect"}
RedisProbes == {"home_redis", "stats_redis_connect", "health_redis", "testcache_connect"}

\* C4: a call of get_db_connection or get_redis_connection never ends in an
\* exception; it returns a connection iff the dependency is reachable, and
\* None otherwise.
C4_ProbeNeverRaises ==
  [][/\ \A t \in Threads :
          (th[t].pc \in DbProbes /\ th'[t].pc # th[t].pc) =>
            /\ th'[t].pc # "crashed"
            /\ th'[t].conn # "None" <=> dbUp
     /\ \A t \in Threads :
          (th[t].pc \in RedisProbes /\ th'[t].pc # th[t].pc) =>
            /\ th'[t].pc # "crashed"
            /\ th'[t].r # "None" <=> redisUp
     /\ (main.pc = "init_connect" /\ main'.pc # main.pc) =>
          (main'.conn # "None" <=> dbUp)]_vars

\* C4 witness: both probes of a /health request failed and the handler
\* answered all the same
C4_Witness ==
  \E t \in Threads :
    HealthDone(t) /\ th[t].conn = "None" /\ th[t].r = "None"

\* C5 as stated: an /api/stats response never reports a smaller
\* total_requests than an earlier one.
C5_StatsNeverDecrease ==
  [][\A t \in Threads :
       (th[t].pc # "done" /\ th'[t].pc = "done" /\ th'[t].resp.type = "stats") =>
         th'[t].resp.body.total_requests >= maxStats]_vars

\* C5 amended: an /api/stats response whose db_status is CONNECTED reports
\* at least the total_requests of every /api/stats response that was given
\* before its request began.
C5_ConnectedStatsNeverDecrease ==
  \A t \in Threads :
    (StatsDone(t) /\ th[t].resp.body.db_status = "CONNECTED") =>
      th[t].resp.body.total_requests >= th[t].floor

\* C5 witness: a CONNECTED response after a response that reported a count
C5_Witness ==
  \E t \in Threads :
    /\ StatsDone(t)
    /\ th[t].resp.body.db_status = "CONNECTED"
    /\ th[t].floor > 0
    /\ th[t].resp.body.total_requests > th[t].floor

\* C6: when the database and Redis have been reachable all along, once the
\* accepted requests have all been handled total_requests equals their
\* number and cache_hits the number of '/' requests among them.
C6_NoLostIncrement ==
  (AllIdle /\ main.pc = "serving" /\ ~dbEverDown /\ ~redisEverDown) =>
    /\ Len(metrics) > 0
    /\ metrics[1] = accepted
    /\ requests = accepted
    /\ ReadCacheHits(cache_hits) = homeDone

\* C6 witness: two requests, a '/' among them, handled without an outage
C6_Witness ==
  /\ AllIdle
  /\ ~dbEverDown
  /\ ~redisEverDown
  /\ accepted >= 2
  /\ homeDone >= 1
  /\ metrics = <<accepted>>

\* C7 as stated: a successful /api/test-cache call that found its key
\* already set retrieves the value the earlier call wrote.
C7_RetrievesFirstValue ==
  \A t \in Threads :
    (TestCacheSuccess(t) /\ th[t].prev # NoKey) =>
      th[t].resp.retrieved_value = th[t].prev

\* C7 amended: a key 'test:<n>' holds a value made in second n or later and
\* expires 60 seconds after the write, which is not before the value was
\* made; a successful call writes its key before it reads it, so the value
\* it retrieves comes from a write that is not earlier than its own.
C7_KeyPolicy ==
  /\ \A k \in DOMAIN testKeys :
       /\ testKeys[k].exp >= testKeys[k].val + Expire * TicksPerSec
       /\ k <= TestKey(testKeys[k].val)
       /\ now < testKeys[k].exp
  /\ \A t \in Threads :
       TestCacheSuccess(t) =>
         /\ th[t].resp.test_key <= TestKey(th[t].resp.test_value)
         /\ th[t].resp.test_value <= th[t].wrote
         /\ th[t].resp.retrieved_value = NoKey \/ th[t].written >= th[t].wrote

\* C7 witness: the second call of a second overwrote the first call's value
\* and retrieved its own
C7_Witness ==
  \E t \in Threads :
    /\ TestCacheSuccess(t)
    /\ th[t].prev # NoKey
    /\ th[t].prev < th[t].resp.test_value
    /\ th[t].resp.retrieved_value = th[t].resp.test_value

\* C8 as stated: a request makes at most one connection attempt per
\* dependency.
C8_OneAttemptPerDependency ==
  \A t \in Threads : th[t].dbTries <= 1 /\ th[t].redisTries <= 1

\* calls of get_db_connection and of get_redis_connection in a handler
DbCalls(kind) == IF kind = "/api/test-cache" THEN 1 ELSE 2
RedisCalls(kind) ==
  CASE kind = "/" -> 2
    [] kind = "/api/test-db" -> 0
    [] OTHER -> 1

\* C8 amended: every call of get_db_connection or get_redis_connection
\* makes one attempt, failed or not; a request makes one such call per use
\* of the dependency, two at most, and a handler that returned made them all.
C8_OneAttemptPerCall ==
  \A t \in Threads :
    th[t].kind # "none" =>
      /\ th[t].dbTries <= DbCalls(th[t].kind)
      /\ th[t].redisTries <= RedisCalls(th[t].kind)
      /\ (th[t].pc = "done" \/ th[t].exc = "AttributeError") =>
           /\ th[t].dbTries = DbCalls(th[t].kind)
           /\ th[t].redisTries = RedisCalls(th[t].kind)

\* C8 witness: /health tried the database twice and failed the second time
C8_Witness ==
  \E t \in Threads :
    /\ HealthDone(t)
    /\ th[t].dbTries = 2
    /\ th[t].conn = "None"

\* C9: with Redis reachable all along, cache_hits is the number of '/'
\* requests handled; only r.incr in home() changes cache_hits, by one.
C9_CacheHitsCountsHomeViews ==
  /\ []((~redisEverDown /\ \A t \in Threads : th[t].kind # "/") =>
          ReadCacheHits(cache_hits) = homeDone)
  /\ [][cache_hits' # cache_hits =>
          /\ \E t \in Threads :
               /\ th[t].kind = "/"
               /\ th[t].pc = "home_incr"
               /\ th'[t].pc = "stats_db_connect"
          /\ ReadCacheHits(cache_hits') = ReadCacheHits(cache_hits) + 1]_vars

\* C9 witness: a '/' request and a request of another kind handled with
\* Redis reachable
C9_Witness ==
  /\ AllIdle
  /\ ~redisEverDown
  /\ accepted = 2
  /\ homeDone = 1
  /\ cache_hits = 1

\* C10: no connection opened by request code is left open once the
\* requests have been handled.
C10_NoOpenConnectionWhenIdle == AllIdle => openConns = 0

\* C11: a successful /api/test-cache response that retrieved a value
\* retrieved the test_value which that same call wrote, also when other
\* /api/test-cache requests run in the same clock second.
C11_RetrievesOwnValue ==
  \A t \in Threads :
    (TestCacheSuccess(t) /\ th[t].resp.retrieved_value # NoKey) =>
      th[t].resp.retrieved_value = th[t].resp.test_value

====
